---- MODULE Spec2Model ----
(***************************************************************************)
(* Model of the green-thread runtime of src/main.rs: a fixed pool of       *)
(* THREAD_SIZE contexts, slot 0 being the driver (the OS thread's own      *)
(* stack), scheduled round-robin by RunTime::yield_out and switched by     *)
(* ctx_switch.                                                             *)
(*                                                                         *)
(* Only one context executes at a time, so a step of the model is the code *)
(* the running context executes from the point it gained control up to and *)
(* including the next call that may give control away (yield_out), or one  *)
(* call the driver makes from main (spawn_task, run, yield_thread,         *)
(* task_return, leaving main).                                             *)
(*                                                                         *)
(* Addresses are byte addresses.  Only the words that `call` pushes and    *)
(* `ret` pops are laid out on the stacks; the size of the locals of a      *)
(* compiled function is left out.                                          *)
(***************************************************************************)
EXTENDS Integers, Sequences, FiniteSets, TLC

\* src/main.rs:4-5
STACK_SIZE == 1024 * 1024 * 4
THREAD_SIZE == 4

\* Bounds of the model.
MaxYields == 2         \* a task body loops (step, yield) at most this often
MaxSpawns == 5         \* successful spawn_task calls made by the driver
MaxDriverYields == 2   \* yield_thread calls made by the driver itself
MaxAlignOff == 1       \* the allocator places the buffers at HeapBase + 16 * (0..MaxAlignOff)
HeapBase == 4096       \* lowest address the allocator hands out

Slots == 0 .. (THREAD_SIZE - 1)
TaskSlots == 1 .. (THREAD_SIZE - 1)

\* "no Ready context found": yield_out returns false
NoPos == 0 - 1

VARIABLES
    state,      \* threads[i].state
    current,    \* RunTime.current
    rsp,        \* threads[i].ctx.rsp
    stack,      \* address of threads[i].stack
    mem,        \* the words spawn_task wrote into threads[i].stack
    pc,         \* where context i executes, or is suspended
    n,          \* loop bound of the task body in slot i
    cnt,        \* loop counter of the task body in slot i = steps printed
    fin,        \* "finished" lines printed by the task in slot i
    spawned,    \* successful spawn_task calls so far
    completed,  \* task bodies that returned so far
    drvYields,  \* yield_thread calls made by the driver so far
    lastStep,   \* slot of the task that printed the last step line since the
                \* driver last called run or yield_thread from main (0: none)
    freed,      \* slots whose stack Thread::drop has released
    entered,    \* the code context i entered by ret when first switched into
    returned,   \* the code context i entered by ret when its body returned
    op          \* the operation performed last and its outcome

vars == <<state, current, rsp, stack, mem, pc, n, cnt, fin, spawned,
          completed, drvYields, lastStep, freed, entered, returned, op>>

----------------------------------------------------------------------------
\* Thread::new: zeroed register file, state Available
NewThreadState(id) == "Available"

\* RunTime::new without the mark on thread 0
NewStatesNoDriver == [i \in Slots |-> NewThreadState(i)]

\* RunTime::new: all threads new, thread 0 marked Running
NewStates == [[i \in Slots |-> NewThreadState(i)] EXCEPT ![0] = "Running"]

\* stack_bottom = (stack.add(STACK_SIZE) as usize & !0xFF)
StackBottom(s) == (s + STACK_SIZE) - ((s + STACK_SIZE) % 256)

\* the bootstrap frame with the trampoline below the task entry
BootFrameTrampolineFirst(s) ==
    { [addr |-> StackBottom(s) - 16, word |-> "task_return"],
      [addr |-> StackBottom(s) - 24, word |-> "task"],
      [addr |-> StackBottom(s) - 32, word |-> "just_ret"] }

\* the three ptr::write calls of spawn_task
BootFrame(s) ==
    { [addr |-> StackBottom(s) - 16, word |-> "task_return"],
      [addr |-> StackBottom(s) - 24, word |-> "just_ret"],
      [addr |-> StackBottom(s) - 32, word |-> "task"] }

\* available_thread.ctx.rsp = stack_bottom.offset(-32)
BootRsp(s) == StackBottom(s) - 32

\* find() matching every context that is not running
FindAvailableNotRunning(st) ==
    IF \E i \in Slots : st[i] # "Running"
    THEN CHOOSE i \in Slots :
            /\ st[i] # "Running"
            /\ \A j \in Slots : st[j] # "Running" => i <= j
    ELSE NoPos

\* the word spawn_task wrote at address a of the stack of context i
WordAt(i, a) ==
    IF \E w \in mem[i] : w.addr = a
    THEN (CHOOSE w \in mem[i] : w.addr = a).word
    ELSE "none"

\* The code entered by a ret executed with the stack pointer at a: the word
\* popped; just_ret is a single ret, which pops the next word.
RECURSIVE EnterByRet(_, _)
EnterByRet(i, a) ==
    IF WordAt(i, a) = "just_ret"
    THEN <<"just_ret">> \o EnterByRet(i, a + 8)
    ELSE <<WordAt(i, a)>>

\* the last element of a non-empty sequence
Last(s) == s[Len(s)]

\* The address of the return address of the task body of context i: the
\* stack pointer after the rets that led from the bootstrap frame into it.
BodyRetAddr(i) ==
    BootRsp(stack[i]) + 8 * Len(EnterByRet(i, BootRsp(stack[i])))

\* find() searching the pool from its end
FindAvailableHighest(st) ==
    IF \E i \in Slots : st[i] = "Available"
    THEN CHOOSE i \in Slots :
            /\ st[i] = "Available"
            /\ \A j \in Slots : st[j] = "Available" => i >= j
    ELSE NoPos

\* find() falling back to the last context instead of panicking
FindAvailableOrLast(st) ==
    IF \E i \in Slots : st[i] = "Available"
    THEN CHOOSE i \in Slots :
            /\ st[i] = "Available"
            /\ \A j \in Slots : st[j] = "Available" => i <= j
    ELSE THREAD_SIZE - 1

\* .iter_mut().find(|t| t.state == Available): the lowest index, or NoPos
FindAvailable(st) ==
    IF \E i \in Slots : st[i] = "Available"
    THEN CHOOSE i \in Slots :
            /\ st[i] = "Available"
            /\ \A j \in Slots : st[j] = "Available" => i <= j
    ELSE NoPos

\* the scan loop walking the pool downwards
RECURSIVE ScanFromDescending(_, _, _)
ScanFromDescending(st, cur, pos) ==
    IF st[pos] = "Ready"
    THEN pos
    ELSE LET p2 == IF pos = 0 THEN THREAD_SIZE - 1 ELSE pos - 1
         IN  IF p2 = cur THEN NoPos ELSE ScanFromDescending(st, cur, p2)

\* the scan loop wrapping one slot too early
RECURSIVE ScanFromSkipLast(_, _, _)
ScanFromSkipLast(st, cur, pos) ==
    IF st[pos] = "Ready"
    THEN pos
    ELSE LET p1 == pos + 1
             p2 == IF p1 >= THREAD_SIZE - 1 THEN 0 ELSE p1
         IN  IF p2 = cur THEN NoPos ELSE ScanFromSkipLast(st, cur, p2)

\* the scan loop giving up after the slot next to current
RECURSIVE ScanFromOneSlot(_, _, _)
ScanFromOneSlot(st, cur, pos) ==
    IF st[pos] = "Ready"
    THEN pos
    ELSE IF pos # cur THEN NoPos
         ELSE LET p1 == pos + 1
                  p2 == IF p1 = THREAD_SIZE THEN 0 ELSE p1
              IN  IF p2 = cur THEN NoPos ELSE ScanFromOneSlot(st, cur, p2)

\* the scan loop without the wrap to slot 0
RECURSIVE ScanFromNoWrap(_, _, _)
ScanFromNoWrap(st, cur, pos) ==
    IF st[pos] = "Ready"
    THEN pos
    ELSE LET p1 == pos + 1
         IN  IF p1 = THREAD_SIZE \/ p1 = cur
             THEN NoPos
             ELSE ScanFromNoWrap(st, cur, p1)

\* the scan loop of yield_out, entered with pos = self.current
RECURSIVE ScanFrom(_, _, _)
ScanFrom(st, cur, pos) ==
    IF st[pos] = "Ready"
    THEN pos
    ELSE LET p1 == pos + 1
             p2 == IF p1 = THREAD_SIZE THEN 0 ELSE p1
         IN  IF p2 = cur THEN NoPos ELSE ScanFrom(st, cur, p2)

\* the number of contexts whose state the scan loop of yield_out tests
RECURSIVE ScanCount(_, _, _)
ScanCount(st, cur, pos) ==
    IF st[pos] = "Ready"
    THEN 1
    ELSE LET p1 == pos + 1
             p2 == IF p1 = THREAD_SIZE THEN 0 ELSE p1
         IN  IF p2 = cur THEN 1 ELSE 1 + ScanCount(st, cur, p2)

\* the demotion writing the wrong state
DemoteToAvailable(st, cur) ==
    IF st[cur] # "Available" THEN [st EXCEPT ![cur] = "Available"] ELSE st

\* the demotion with the test for Available inverted
DemoteInverted(st, cur) ==
    IF st[cur] = "Available" THEN [st EXCEPT ![cur] = "Ready"] ELSE st

\* the demotion without the test for Available
DemoteAlways(st, cur) == [st EXCEPT ![cur] = "Ready"]

\* if threads[current].state != Available { threads[current].state = Ready }
Demote(st, cur) ==
    IF st[cur] # "Available" THEN [st EXCEPT ![cur] = "Ready"] ELSE st

\* the switch marking the context it leaves as the Running one
SwitchStatesMarkOld(st, cur, pos) == [Demote(st, cur) EXCEPT ![cur] = "Running"]

\* the switch without the assignment of Running to the target
SwitchStatesNoRunning(st, cur, pos) == Demote(st, cur)

\* ... self.current = pos; threads[self.current].state = Running
SwitchStates(st, cur, pos) == [Demote(st, cur) EXCEPT ![pos] = "Running"]

\* ret without the test for the driver
RetGuardAlways(cur) == TRUE

\* ret: if self.current != 0
RetGuard(cur) == cur # 0

\* ret leaving the state of the finished context alone
RetMarkNothing(st, cur) == st

\* ret: threads[current].state = Available
RetMark(st, cur) == [st EXCEPT ![cur] = "Available"]

\* The stack pointer of context i in the frame that makes the call: main's
\* frame for the driver (on the OS stack, put below the heap here), the task
\* body's frame (entered by ret from the slot at -32, so at -24) or
\* task_return's frame (entered by two more rets, so at -8).
FrameSp(i, via) ==
    IF i = 0 THEN HeapBase - 64
    ELSE IF via = "ret" THEN StackBottom(stack[i]) - 8
         ELSE StackBottom(stack[i]) - 24

\* ctx_switch: mov [rdi + 0x00], rsp.  Three calls deep: run / yield_thread /
\* ret, then yield_out, then ctx_switch, each pushing a return address.
SavedRsp(i, via) == FrameSp(i, via) - 24

\* Where a context is suspended after yield_out switched away from it.
Suspended(via) ==
    CASE via = "run"   -> "in_run"
      [] via = "yield" -> "in_yield"
      [] via = "ret"   -> "in_ret"

\* ctx_switch: mov rsp, [rsi]; ret.  Where control arrives in the target:
\* a bootstrapped context enters the code its frame leads to, the task body
\* if that is the task entry; a context suspended in
\* yield_out returns true to its caller; the caller is the run loop, the
\* statement after yield_thread, or ret, which returns to task_return, which
\* returns through the never-written word above the bootstrap frame.
Resumed(i, p) ==
    CASE p = "entry"    -> IF Last(EnterByRet(i, rsp[i])) = "task"
                           THEN "body" ELSE "crashed"
      [] p = "in_yield" -> IF i = 0 THEN "main" ELSE "body"
      [] p = "in_run"   -> "in_run"
      [] OTHER          -> "crashed"

\* Where the caller of yield_out continues when it returned false.
NoSwitch(i, via) ==
    CASE via = "run"   -> "main"
      [] via = "yield" -> IF i = 0 THEN "main" ELSE "body"
      [] via = "ret"   -> IF i = 0 THEN "main" ELSE "crashed"

\* yield_out demoting the current context before it scans
YieldOutDemoteFirst(st, via) ==
    LET pos == ScanFrom(st, current, current) IN
    IF pos = NoPos
    THEN /\ state' = Demote(st, current)
         /\ current' = current
         /\ rsp' = rsp
         /\ pc' = [pc EXCEPT ![current] = NoSwitch(current, via)]
         /\ entered' = entered
    ELSE /\ state' = SwitchStates(st, current, pos)
         /\ current' = pos
         /\ rsp' = [rsp EXCEPT ![current] = SavedRsp(current, via)]
         /\ pc' = [[pc EXCEPT ![current] = Suspended(via)]
                      EXCEPT ![pos] = Resumed(pos, pc[pos])]
         /\ entered' = IF pc[pos] = "entry"
                       THEN [entered EXCEPT ![pos] = EnterByRet(pos, rsp[pos])]
                       ELSE entered

\* RunTime::yield_out called with the states st, from run, yield_thread or ret
YieldOut(st, via) ==
    LET pos == ScanFrom(st, current, current) IN
    IF pos = NoPos
    THEN /\ state' = st
         /\ current' = current
         /\ rsp' = rsp
         /\ pc' = [pc EXCEPT ![current] = NoSwitch(current, via)]
         /\ entered' = entered
    ELSE /\ state' = SwitchStates(st, current, pos)
         /\ current' = pos
         /\ rsp' = [rsp EXCEPT ![current] = SavedRsp(current, via)]
         /\ pc' = [[pc EXCEPT ![current] = Suspended(via)]
                      EXCEPT ![pos] = Resumed(pos, pc[pos])]
         /\ entered' = IF pc[pos] = "entry"
                       THEN [entered EXCEPT ![pos] = EnterByRet(pos, rsp[pos])]
                       ELSE entered

Switches(st) == ScanFrom(st, current, current) # NoPos

----------------------------------------------------------------------------
\* RunTime::new, RunTime::init; the allocator chooses where the buffers are
Init ==
    /\ state = NewStates
    /\ current = 0
    /\ rsp = [i \in Slots |-> 0]
    /\ \E o \in 0 .. MaxAlignOff :
          stack = [i \in Slots |-> HeapBase + 16 * o + i * (STACK_SIZE + 16)]
    /\ mem = [i \in Slots |-> {}]
    /\ pc = [i \in Slots |-> IF i = 0 THEN "main" ELSE "idle"]
    /\ n = [i \in Slots |-> 0]
    /\ cnt = [i \in Slots |-> 0]
    /\ fin = [i \in Slots |-> 0]
    /\ spawned = 0
    /\ completed = 0
    /\ drvYields = 0
    /\ lastStep = 0
    /\ freed = {}
    /\ entered = [i \in Slots |-> <<>>]
    /\ returned = [i \in Slots |-> <<>>]
    /\ op = "new"

DriverInMain == current = 0 /\ pc[0] = "main"

\* rt.spawn_task(task) called from main, the task body looping k times
SpawnTask(k) ==
    /\ DriverInMain
    /\ spawned < MaxSpawns
    /\ LET sel == FindAvailable(state) IN
       IF sel = NoPos
       THEN \* .expect(..) panics; unwinding main drops rt
            /\ pc' = [pc EXCEPT ![0] = "panicked"]
            /\ freed' = Slots
            /\ op' = "spawn_panic"
            /\ UNCHANGED <<state, current, rsp, stack, mem, n, cnt, fin,
                           spawned, completed, drvYields, lastStep, entered,
                           returned>>
       ELSE /\ mem' = [mem EXCEPT ![sel] = BootFrame(stack[sel])]
            /\ rsp' = [rsp EXCEPT ![sel] = BootRsp(stack[sel])]
            /\ state' = [state EXCEPT ![sel] = "Ready"]
            /\ pc' = IF sel = current THEN pc ELSE [pc EXCEPT ![sel] = "entry"]
            /\ n' = [n EXCEPT ![sel] = k]
            /\ cnt' = [cnt EXCEPT ![sel] = 0]
            /\ fin' = [fin EXCEPT ![sel] = 0]
            /\ spawned' = spawned + 1
            /\ entered' = [entered EXCEPT ![sel] = <<>>]
            /\ returned' = [returned EXCEPT ![sel] = <<>>]
            /\ op' = "spawn"
            /\ UNCHANGED <<current, stack, completed, drvYields, lastStep,
                           freed>>

\* rt.run(): one iteration of `while self.yield_out() {}`, the first one when
\* main calls run, a later one when the driver is switched into again
Run ==
    /\ current = 0
    /\ pc[0] \in {"main", "in_run"}
    /\ YieldOut(state, "run")
    /\ lastStep' = IF pc[0] = "main" THEN 0 ELSE lastStep
    /\ op' = IF Switches(state) THEN "run_switch" ELSE "run_return"
    /\ UNCHANGED <<stack, mem, n, cnt, fin, spawned, completed, drvYields,
                   freed, returned>>

\* yield_thread() called from main
DriverYield ==
    /\ DriverInMain
    /\ drvYields < MaxDriverYields
    /\ YieldOut(state, "yield")
    /\ drvYields' = drvYields + 1
    /\ lastStep' = 0
    /\ op' = IF Switches(state) THEN "yield_switch" ELSE "yield_idle"
    /\ UNCHANGED <<stack, mem, n, cnt, fin, spawned, completed, freed,
                   returned>>

\* RunTime::ret called through task_return
Ret ==
    IF RetGuard(current)
    THEN YieldOut(RetMark(state, current), "ret")
    ELSE UNCHANGED <<state, current, rsp, pc, entered>>

\* task_return() called from main
DriverTaskReturn ==
    /\ DriverInMain
    /\ Ret
    /\ op' = "ret_driver"
    /\ UNCHANGED <<stack, mem, n, cnt, fin, spawned, completed, drvYields,
                   lastStep, freed, returned>>

\* main returns: rt is dropped, Thread::drop releases every stack
Exit ==
    /\ DriverInMain
    /\ pc' = [pc EXCEPT ![0] = "exited"]
    /\ freed' = Slots
    /\ op' = "exit"
    /\ UNCHANGED <<state, current, rsp, stack, mem, n, cnt, fin, spawned,
                   completed, drvYields, lastStep, entered, returned>>

\* one loop iteration of the task body in slot i: println, yield_thread()
TaskStep(i) ==
    /\ current = i
    /\ pc[i] = "body"
    /\ cnt[i] < n[i]
    /\ cnt' = [cnt EXCEPT ![i] = cnt[i] + 1]
    /\ lastStep' = i
    /\ YieldOut(state, "yield")
    /\ op' = "task_yield"
    /\ UNCHANGED <<stack, mem, n, fin, spawned, completed, drvYields, freed,
                   returned>>

\* the task body in slot i leaves its loop, prints "finished" and returns:
\* its ret pops the word above the one it was entered through, and
\* task_return, once entered, calls RunTime::ret
TaskFinish(i) ==
    /\ current = i
    /\ pc[i] = "body"
    /\ cnt[i] = n[i]
    /\ fin' = [fin EXCEPT ![i] = fin[i] + 1]
    /\ completed' = completed + 1
    /\ returned' = [returned EXCEPT ![i] = EnterByRet(i, BodyRetAddr(i))]
    /\ IF Last(EnterByRet(i, BodyRetAddr(i))) = "task_return"
       THEN /\ Ret
            /\ op' = "task_return"
       ELSE /\ pc' = [pc EXCEPT ![i] = "crashed"]
            /\ op' = "task_crash"
            /\ UNCHANGED <<state, current, rsp, entered>>
    /\ UNCHANGED <<stack, mem, n, cnt, spawned, drvYields, lastStep, freed>>

Next ==
    \/ \E k \in 0 .. MaxYields : SpawnTask(k)
    \/ Run
    \/ DriverYield
    \/ DriverTaskReturn
    \/ Exit
    \/ \E i \in TaskSlots : TaskStep(i)
    \/ \E i \in TaskSlots : TaskFinish(i)

Spec == Init /\ [][Next]_vars

\* The loop bound standing for a task body that loops forever without a
\* call of yield_thread: the task argument of spawn_task may be any fn().
Spin == 0 - 1

\* the body of the task in slot i, one that never yields, keeps executing
TaskSpin(i) ==
    /\ current = i
    /\ pc[i] = "body"
    /\ n[i] = Spin
    /\ op' = "task_spin"
    /\ UNCHANGED <<state, current, rsp, stack, mem, pc, n, cnt, fin, spawned,
                   completed, drvYields, lastStep, freed, entered, returned>>

\* the runtime with tasks that yield finitely often and tasks that never do
SpinNext ==
    \/ Next
    \/ SpawnTask(Spin)
    \/ \E i \in TaskSlots : TaskSpin(i)

SpinSpec == Init /\ [][SpinNext]_vars

\* The OS thread keeps executing the running context.
LiveSpec == Spec /\ WF_vars(Next)

----------------------------------------------------------------------------
----------------------------------------------------------------------------
OneRunning == Cardinality({i \in Slots : state[i] = "Running"}) = 1
NoneReady(st) == \A i \in Slots : st[i] # "Ready"

\* number of slots walked from slot a to reach slot b going upwards and
\* wrapping around; a full round for b = a
Dist(a, b) == IF b = a THEN THREAD_SIZE ELSE (b - a + THREAD_SIZE) % THREAD_SIZE

\* C1: when run() returns, every task spawned before it has run its body to
\* completion exactly once: it printed each of its n steps once and finished
\* once, and as many bodies returned as were spawned; no task ever steps or
\* finishes more often than that.
C1_RunCompletesEachTaskOnce ==
    /\ \A i \in TaskSlots : fin[i] <= 1 /\ cnt[i] <= n[i]
    /\ completed <= spawned
    /\ op = "run_return" =>
          /\ completed = spawned
          /\ \A i \in TaskSlots :
                pc[i] # "idle" => fin[i] = 1 /\ cnt[i] = n[i]

\* run() returned after three tasks with 0, 1 and MaxYields yields
C1_Witness ==
    /\ op = "run_return"
    /\ spawned = 3 /\ completed = 3
    /\ n[1] = 0 /\ n[2] = 1 /\ n[3] = MaxYields
    /\ \A i \in TaskSlots : fin[i] = 1 /\ cnt[i] = n[i]

\* C2: every switch goes to the first Ready context met walking the pool
\* upwards, circularly, from the slot after current; and while the driver is
\* inside run(), the task that prints the next step is the first one after
\* the task that printed the previous step with no Ready task in between.
C2_RoundRobin ==
    [][ /\ current' # current =>
              /\ state[current'] = "Ready"
              /\ \A t \in Slots :
                    Dist(current, t) < Dist(current, current') =>
                        state[t] # "Ready"
        /\ (cnt' # cnt /\ pc[0] = "in_run" /\ lastStep # 0) =>
              \A t \in TaskSlots :
                    Dist(lastStep, t) < Dist(lastStep, current) =>
                        state[t] # "Ready"
      ]_vars

\* task 1 was switched into from task 3, past the driver, and three tasks
\* have printed steps in turn
C2_Witness ==
    /\ pc[0] = "in_run"
    /\ lastStep = 3
    /\ current = 1
    /\ cnt[1] = 1 /\ cnt[2] = 1 /\ cnt[3] = 1
    /\ n[1] = 2

\* C3: exactly one context is Running in every reachable state.
C3_ExactlyOneRunning == OneRunning

\* a task is running after another task returned and the driver yielded
C3_Witness ==
    /\ op = "task_return"
    /\ current # 0
    /\ drvYields > 0
    /\ OneRunning

\* C4: a context changes state only Available->Ready in spawn_task,
\* Ready->Running as the context yield_out switches to, Running->Ready as the
\* context yield_out switches from when called by run or yield_thread, and
\* Running->Available as the context whose body returned; the context that
\* calls yield_out is never Ready itself, so none is switched to itself.
C4_LegalTransitions ==
    [][ /\ state[current] # "Ready"
        /\ \A i \in Slots : state'[i] # state[i] =>
              \/ /\ state[i] = "Available" /\ state'[i] = "Ready"
                 /\ op' = "spawn"
              \/ /\ state[i] = "Ready" /\ state'[i] = "Running"
                 /\ op' \in {"run_switch", "yield_switch", "task_yield",
                             "task_return"}
                 /\ i = current' /\ i # current
              \/ /\ state[i] = "Running" /\ state'[i] = "Ready"
                 /\ op' \in {"run_switch", "yield_switch", "task_yield"}
                 /\ i = current /\ i # current'
              \/ /\ state[i] = "Running" /\ state'[i] = "Available"
                 /\ op' = "task_return"
                 /\ i = current /\ i # current'
      ]_vars

\* every kind of transition has happened: a task returned in a reused slot
\* and control went to another task
C4_Witness ==
    /\ op = "task_return"
    /\ spawned = THREAD_SIZE
    /\ current # 0
    /\ \E i \in TaskSlots : state[i] = "Available" /\ pc[i] = "in_ret"
    /\ \E i \in TaskSlots : state[i] = "Ready" /\ pc[i] = "in_yield"

\* C5: spawn_task called with no Available context panics and leaves every
\* state, every saved stack pointer and current as they were; it succeeds
\* only when some context was Available.
C5_ExhaustedSpawnFails ==
    [][ /\ op' = "spawn_panic" =>
              /\ \A i \in Slots : state[i] # "Available"
              /\ state' = state /\ rsp' = rsp /\ current' = current
              /\ mem' = mem
        /\ spawned' # spawned => \E i \in Slots : state[i] = "Available"
        /\ (DriverInMain /\ \A i \in Slots : state[i] # "Available") =>
              spawned' = spawned
      ]_vars

\* the spawn that panicked found three tasks in the pool, one suspended in
\* its loop
C5_Witness ==
    /\ op = "spawn_panic"
    /\ \A i \in TaskSlots : state[i] = "Ready"
    /\ \E i \in TaskSlots : pc[i] = "in_yield" /\ rsp[i] # 0
    /\ pc[0] = "panicked"

\* C6: the tasks spawned and not yet finished are exactly the task slots
\* that are not Available, so never more than the pool size minus one; a
\* spawn takes a context that was Available, whether fresh or left by a
\* finished task, and makes it Ready.
C6_SlotReuse ==
    /\ [](/\ spawned - completed =
               Cardinality({i \in TaskSlots : state[i] # "Available"})
          /\ spawned - completed <= THREAD_SIZE - 1)
    /\ [][ spawned' # spawned =>
              \E i \in TaskSlots :
                 /\ state[i] = "Available" /\ state'[i] = "Ready"
                 /\ pc[i] \in {"idle", "in_ret"} /\ pc'[i] = "entry"
          ]_vars

\* more tasks than the pool has contexts were spawned, and all finished
C6_Witness ==
    /\ spawned > THREAD_SIZE
    /\ completed = spawned
    /\ \A i \in TaskSlots : state[i] = "Available"

\* C7: when run() returns, every task slot is Available, slot 0 is Running
\* and current is 0.
C7_RunReturnsWhenNoneReady ==
    op = "run_return" =>
        /\ \A i \in TaskSlots : state[i] = "Available"
        /\ NoneReady(state)
        /\ state[0] = "Running"
        /\ current = 0
        /\ pc[0] = "main"

\* run() returned after two tasks that each looped MaxYields times
C7_Witness ==
    /\ op = "run_return"
    /\ spawned = 2 /\ completed = 2 /\ drvYields = 0
    /\ cnt[1] = MaxYields /\ cnt[2] = MaxYields
    /\ state[1] = "Available" /\ state[2] = "Available"

\* C8: once the driver is inside run(), run() returns.
C8_RunTerminates == (pc[0] = "in_run") ~> (pc[0] = "main" /\ op = "run_return")

\* run() returned after it had switched into tasks the driver had already
\* yielded to
C8_Witness ==
    /\ op = "run_return"
    /\ pc[0] = "main"
    /\ drvYields = MaxDriverYields
    /\ completed = 3
    /\ lastStep # 0

\* C9: run() called with no Ready context returns at once: no state, current,
\* saved stack pointer or position of any context changes.
C9_IdleRun ==
    [][ (DriverInMain /\ NoneReady(state)
            /\ op' \in {"run_switch", "run_return"}) =>
          /\ op' = "run_return"
          /\ state' = state /\ current' = current /\ rsp' = rsp /\ pc' = pc
          /\ cnt' = cnt /\ fin' = fin
      ]_vars

\* run() returned with nothing ever spawned
C9_Witness ==
    /\ op = "run_return"
    /\ spawned = 0
    /\ \A i \in Slots : rsp[i] = 0

\* C10: slot 0 is never Available, and no spawn_task touches slot 0: its
\* state, its saved stack pointer and its stack stay as they were.
C10_DriverSlotNeverSpawned ==
    /\ [](state[0] \in {"Running", "Ready"} /\ mem[0] = {})
    /\ [][ op' \in {"spawn", "spawn_panic"} =>
              state'[0] = state[0] /\ rsp'[0] = rsp[0] /\ pc'[0] # "entry"
          ]_vars

\* a fourth task was spawned, into a slot a finished task had left, after the
\* driver had been switched out and its stack pointer saved
C10_Witness ==
    /\ op = "spawn"
    /\ rsp[0] # 0
    /\ state[0] = "Running"
    /\ spawned = THREAD_SIZE

\* C11 as stated: when main leaves after run() returned and the RunTime is
\* dropped, every context whose stack is released is Available.
C11_TeardownOnlyAvailable ==
    [][ (op = "run_return" /\ op' = "exit") =>
            \A i \in freed' : state'[i] = "Available"
      ]_vars

\* C11: when main leaves after run() returned and the RunTime is dropped,
\* the stack of every context is released; every task context is Available
\* then, none is Ready, and slot 0, the driver, is Running.
C11_TeardownAfterRun ==
    [][ (op = "run_return" /\ op' = "exit") =>
            /\ freed' = Slots
            /\ \A i \in TaskSlots : state'[i] = "Available"
            /\ NoneReady(state')
            /\ state'[0] = "Running"
      ]_vars

\* main left and the stacks were released after run() had run two tasks to
\* their end
C11_Witness ==
    /\ op = "exit"
    /\ freed = Slots
    /\ pc[0] = "exited"
    /\ spawned = 2 /\ completed = 2 /\ drvYields = 0
    /\ cnt[1] = MaxYields

\* C12: a context that yield_out switched away from on a voluntary yield is
\* Ready and is not the current one; while it is suspended its loop counter
\* and its output do not move; it leaves the yield only by being switched
\* into, Running, at the statement after the yield (the task body with its
\* counter as it was, or main for the driver); and it is resumed eventually:
\* the driver that yielded always, a task while the driver is inside run().
C12_YieldSuspendsAndResumes ==
    /\ [](\A i \in Slots : pc[i] = "in_yield" =>
              state[i] = "Ready" /\ current # i)
    /\ [][ \A i \in Slots : pc[i] = "in_yield" =>
              /\ cnt'[i] = cnt[i] /\ fin'[i] = fin[i] /\ n'[i] = n[i]
              /\ rsp'[i] = rsp[i]
              /\ pc'[i] # "in_yield" =>
                    /\ current' = i /\ current # i
                    /\ state'[i] = "Running"
                    /\ pc'[i] = IF i = 0 THEN "main" ELSE "body"
          ]_vars
    /\ \A i \in TaskSlots :
          (pc[i] = "in_yield" /\ pc[0] = "in_run")
             ~> (current = i /\ pc[i] = "body")
    /\ (pc[0] = "in_yield") ~> DriverInMain

\* task 2 has been resumed after its first yield, switched into directly
\* from task 1, which is now the one suspended in its yield
C12_Witness ==
    /\ current = 2 /\ pc[2] = "body"
    /\ cnt[2] = 1 /\ n[2] = 2
    /\ op = "task_yield"
    /\ pc[1] = "in_yield" /\ cnt[1] = 2
    /\ pc[0] = "in_run"

\* C13: yield_out returns false exactly when no context is Ready: called by
\* the driver through run or yield_thread it returns false if and only if
\* none is Ready, and then no state, current or saved stack pointer changes;
\* called by a task, through yield_thread or ret, some context is Ready and
\* it switches; the scan tests at most THREAD_SIZE contexts.
C13_NoWorkIffNoneReady ==
    /\ [](ScanCount(state, current, current) <= THREAD_SIZE)
    /\ [][ /\ op' \in {"run_switch", "run_return", "yield_switch",
                        "yield_idle"} =>
                 /\ (op' \in {"run_return", "yield_idle"}) <=> NoneReady(state)
                 /\ (op' \in {"run_switch", "yield_switch"}) <=>
                        (current' # current)
           /\ op' \in {"run_return", "yield_idle"} =>
                 /\ state' = state /\ current' = current /\ rsp' = rsp
                 /\ pc'[0] = "main"
           /\ op' \in {"task_yield", "task_return"} =>
                 /\ ~ NoneReady(state)
                 /\ current' # current
          ]_vars

\* yield_thread called by the driver found nothing Ready after a task had
\* been run to its end
C13_Witness ==
    /\ op = "yield_idle"
    /\ spawned >= 1 /\ completed = spawned
    /\ \E i \in TaskSlots : pc[i] = "in_ret" /\ n[i] > 0

\* C14: ret called by the driver changes nothing; ret called by a task marks
\* the task's context Available and switches to the first Ready context
\* after it, the finished context being Available after the switch; a
\* finished context stays Available and suspended until spawn_task
\* bootstraps it again, and none is ever resumed inside ret.
C14_RetFinishesCurrent ==
    /\ [](\A i \in Slots :
              /\ pc[i] = "in_ret" => state[i] = "Available" /\ i # 0
              /\ pc[i] # "crashed")
    /\ [][ /\ op' = "ret_driver" =>
                 /\ current = 0
                 /\ state' = state /\ current' = current
                 /\ rsp' = rsp /\ pc' = pc
           /\ op' = "task_return" =>
                 /\ current # 0
                 /\ state[current] = "Running"
                 /\ state'[current] = "Available"
                 /\ pc'[current] = "in_ret"
                 /\ current' # current
                 /\ state[current'] = "Ready"
                 /\ state'[current'] = "Running"
           /\ \A i \in Slots :
                 (pc[i] = "in_ret" /\ pc'[i] # "in_ret") =>
                     op' = "spawn" /\ pc'[i] = "entry" /\ state'[i] = "Ready"
          ]_vars

\* the body of task 1 returned while the driver was suspended in
\* yield_thread: slot 1 is Available and the driver runs in main again
C14_Witness ==
    /\ op = "task_return"
    /\ current = 0 /\ pc[0] = "main"
    /\ state[1] = "Available" /\ pc[1] = "in_ret"
    /\ state[2] = "Ready"

\* C15: a spawn_task that succeeds takes the Available context of lowest
\* index, makes that one Ready with its saved stack pointer at the lowest
\* word of the bootstrap frame, the one holding the task entry, and leaves
\* current and the state, saved stack pointer and stack words of every other
\* context as they were.
C15_SpawnFrame ==
    [][ (op' = "spawn" /\ spawned' # spawned) =>
          \E sel \in Slots :
             /\ state[sel] = "Available"
             /\ \A j \in Slots : j < sel => state[j] # "Available"
             /\ state' = [state EXCEPT ![sel] = "Ready"]
             /\ \E w \in mem'[sel] :
                   /\ w.word = "task"
                   /\ w.addr = rsp'[sel]
                   /\ \A v \in mem'[sel] : v.addr >= w.addr
             /\ \A j \in Slots \ {sel} :
                   rsp'[j] = rsp[j] /\ mem'[j] = mem[j] /\ pc'[j] = pc[j]
             /\ current' = current
             /\ stack' = stack
      ]_vars

\* the fourth spawn took slot 2, left by a finished task, with slot 3
\* Available too and the task of slot 1 suspended in its loop
C15_Witness ==
    /\ op = "spawn"
    /\ spawned = 4
    /\ state[1] = "Ready" /\ pc[1] = "in_yield"
    /\ state[2] = "Ready" /\ pc[2] = "entry"
    /\ state[3] = "Available" /\ pc[3] = "in_ret"

\* C16 as stated: a context that has been switched into for the first time
\* reached the task entry through exactly one just_ret, and task_return was
\* entered once when its body returned.
C16_TrampolineBeforeBody ==
    \A i \in TaskSlots :
        /\ pc[i] \in {"body", "in_yield", "in_ret"} =>
              entered[i] = <<"just_ret", "task">>
        /\ pc[i] = "in_ret" =>
              Cardinality({k \in DOMAIN returned[i] :
                              returned[i][k] = "task_return"}) = 1

\* C16: the ret of ctx_switch that first switches into a spawned context
\* enters the task entry directly, through no trampoline; when the task body
\* returns, its ret enters just_ret once, whose ret enters task_return, once;
\* neither is entered before the body returns.
C16_TrampolineAfterBody ==
    \A i \in TaskSlots :
        /\ pc[i] \in {"idle", "entry"} => entered[i] = <<>>
        /\ pc[i] \in {"body", "in_yield", "in_ret"} => entered[i] = <<"task">>
        /\ pc[i] \in {"idle", "entry", "body", "in_yield"} =>
              returned[i] = <<>>
        /\ pc[i] = "in_ret" => returned[i] = <<"just_ret", "task_return">>
        /\ pc[i] # "crashed"

\* the task of slot 1 has returned after a yield, the task of slot 2 has
\* been entered and runs again after a yield, the task of slot 3 is not yet
\* entered
C16_Witness ==
    /\ pc[1] = "in_ret" /\ cnt[1] = 1
    /\ returned[1] = <<"just_ret", "task_return">>
    /\ pc[2] = "body" /\ cnt[2] = 1 /\ entered[2] = <<"task">>
    /\ pc[3] = "entry" /\ entered[3] = <<>>

SwitchOps == {"run_switch", "yield_switch", "task_yield", "task_return"}

\* C17: current changes only in a step in which the running context calls
\* yield_out through yield_thread or run, or in which its task body returns;
\* in every other step no context but the one spawn_task bootstraps changes
\* state or position, and only the running context prints; while a task
\* that never yields runs, nothing changes at all: the other contexts stay
\* as they are and run() does not return.
C17_ControlLeavesOnlyAtYield ==
    [][ /\ current' # current => op' \in SwitchOps
        /\ op' \notin SwitchOps =>
              /\ current' = current
              /\ \A i \in Slots :
                    (state'[i] # state[i] \/ rsp'[i] # rsp[i]) =>
                        op' = "spawn" /\ state[i] = "Available"
              /\ \A i \in Slots \ {current} :
                    pc'[i] # pc[i] => op' = "spawn" /\ pc'[i] = "entry"
        /\ \A i \in Slots \ {current} :
              /\ cnt'[i] # cnt[i] => op' = "spawn"
              /\ fin'[i] # fin[i] => op' = "spawn"
        /\ (pc[current] = "body" /\ n[current] = Spin) =>
              /\ op' = "task_spin"
              /\ state' = state /\ current' = current /\ pc' = pc
              /\ cnt' = cnt /\ fin' = fin /\ rsp' = rsp
              /\ completed' = completed
      ]_vars

\* a task that never yields runs in slot 2 after the task of slot 1 yielded;
\* the driver is inside run(), the task of slot 3 was never entered
C17_Witness ==
    /\ op = "task_spin"
    /\ current = 2 /\ n[2] = Spin
    /\ pc[0] = "in_run" /\ state[0] = "Ready"
    /\ pc[1] = "in_yield" /\ state[1] = "Ready"
    /\ pc[3] = "entry" /\ state[3] = "Ready"

\* C18: whenever a task context is the current one, slot 0 is Ready, the
\* driver being suspended in run or yield_thread; so yield_out called by a
\* task, through yield_thread or ret, switches, and no context ever returns
\* from task_return through the word above its bootstrap frame.
C18_DriverReadyWhileTaskRuns ==
    /\ [](/\ current # 0 =>
               /\ state[0] = "Ready"
               /\ pc[0] \in {"in_run", "in_yield"}
               /\ ScanFrom(state, current, current) # NoPos
               /\ ScanFrom(RetMark(state, current), current, current) # NoPos
          /\ \A i \in Slots : pc[i] # "crashed")
    /\ [][ op' \in {"task_yield", "task_return"} =>
              /\ current' # current
              /\ pc'[current] \in {"in_yield", "in_ret"}
              /\ op' = "task_return" =>
                    WordAt(current, BootRsp(stack[current]) + 24) = "none"
          ]_vars

\* the last live task runs in slot 3 after the others returned: the driver,
\* suspended in run, is the only Ready context
C18_Witness ==
    /\ op = "task_return"
    /\ current = 3 /\ pc[3] = "body"
    /\ pc[0] = "in_run" /\ state[0] = "Ready"
    /\ state[1] = "Available" /\ state[2] = "Available"

\* C19: current is an index of the pool, the context it names is Running and
\* is the one that executes, and every other context is not Running and is
\* suspended or was never entered.
C19_CurrentIsRunning ==
    /\ current \in Slots
    /\ state[current] = "Running"
    /\ pc[current] \in {"main", "in_run", "body", "panicked", "exited"}
    /\ \A i \in Slots \ {current} :
          /\ state[i] # "Running"
          /\ pc[i] \in {"idle", "entry", "in_yield", "in_run", "in_ret"}

\* the run loop switched from the driver straight into slot 2, slot 1 having
\* been left by a task that returned
C19_Witness ==
    /\ op = "run_switch"
    /\ current = 2 /\ state[2] = "Running" /\ pc[2] = "body"
    /\ state[1] = "Available" /\ pc[1] = "in_ret"
    /\ state[0] = "Ready"

\* the largest multiple of 16 not exceeding a
AlignDown16(a) == a - (a % 16)

\* C20: the bootstrap frame of a spawned context lies below the top of its
\* stack buffer aligned down to 16 bytes, the largest multiple of 16 not
\* above the top: the three words below that base hold, from the highest
\* address to the lowest, task_return, just_ret and the task entry, at the
\* offsets spawn_task uses; the saved stack pointer of a context not yet
\* entered is the address of the lowest one; all three are inside the buffer.
C20_BootFrameAligned16 ==
    \A i \in Slots : mem[i] # {} =>
        LET top  == stack[i] + STACK_SIZE
            base == AlignDown16(top)
        IN  /\ mem[i] = { [addr |-> base - 16, word |-> "task_return"],
                          [addr |-> base - 24, word |-> "just_ret"],
                          [addr |-> base - 32, word |-> "task"] }
            /\ pc[i] = "entry" => rsp[i] = base - 32
            /\ \A w \in mem[i] :
                  stack[i] <= w.addr /\ w.addr + 8 <= stack[i] + STACK_SIZE

====
